---- MODULE Spec2Model ----
(***************************************************************************)
(* Model of the background-removal stage (src/background_remover.py):      *)
(* BackgroundRemover.remove_white_background, process_cartoon and          *)
(* save_transparent, with images as small pixel grids.                     *)
(***************************************************************************)
EXTENDS Integers, Sequences, FiniteSets, TLC

(* ------------------------------------------------------------------ *)
(* Bounds of the model                                                 *)
(* ------------------------------------------------------------------ *)
\* largest height and largest width of an input image
MaxSide == 3
\* largest number of pixels (height * width) of an input image
MaxPixels == 9
\* the number of threads that call one instance at the same time
NThreads == 2
Threads == 1..NThreads

\* channel values the inputs are built from: both sides of every threshold
\* 255 - tolerance for the tolerances below
Levels == {0, 1, 225, 226, 255}
\* tolerances a remover is constructed with (0 and 255 are the ends of the
\* documented range, 30 is the default)
Tolerances == {0, 30, 255}
\* tolerances a result is compared against in the monotonicity properties
AllTolerances == 0..255

(* ------------------------------------------------------------------ *)
(* Images                                                              *)
(* ------------------------------------------------------------------ *)
Pos(h, w) == (1..h) \X (1..w)

Shapes == {s \in (1..MaxSide) \X (1..MaxSide) : s[1] * s[2] <= MaxPixels}

NoImage == [mode |-> "none", h |-> 0, w |-> 0, px |-> [p \in {} |-> <<>>]]

\* a 1x1 image of one pixel
OnePixel(mode, pixel) ==
    [mode |-> mode, h |-> 1, w |-> 1, px |-> [p \in Pos(1, 1) |-> pixel]]

\* an image of two tones: pixel a on the positions of S, pixel b elsewhere
TwoTone(mode, h, w, S, a, b) ==
    [mode |-> mode, h |-> h, w |-> w,
     px |-> [p \in Pos(h, w) |-> IF p \in S THEN a ELSE b]]

TonePairs ==
    { [mode |-> "RGB",  a |-> <<255, 255, 255>>,      b |-> <<0, 0, 0>>],
      [mode |-> "RGB",  a |-> <<226, 226, 255>>,      b |-> <<225, 226, 255>>],
      [mode |-> "RGBA", a |-> <<226, 240, 255, 128>>, b |-> <<225, 255, 255, 77>>] }

RichImages ==
    {OnePixel("RGB", <<r, g, b>>) : r \in Levels, g \in Levels, b \in Levels}
    \cup {OnePixel("RGBA", <<r, 226, 255, a>>) : r \in {225, 226}, a \in {0, 128, 255}}
    \cup {OnePixel("L", <<l>>) : l \in Levels}

TwoToneImages ==
    UNION { {TwoTone(t.mode, s[1], s[2], S, t.a, t.b) : S \in SUBSET Pos(s[1], s[2])}
            : s \in Shapes, t \in TonePairs }

Images == RichImages \cup TwoToneImages

\* the images handed to the operations as a path, as an image handle, and to
\* process_cartoon and save_transparent
SmallImages == {i \in TwoToneImages : i.h * i.w <= 2}

(* ------------------------------------------------------------------ *)
(* Inputs: what a caller can pass as image_input                        *)
(* ------------------------------------------------------------------ *)
\* bytes holding an encoded image, bytes cut short after a valid header,
\* bytes that are no image at all
EncodedBytes(img)   == [type |-> "bytes", content |-> "image", img |-> img]
TruncatedBytes(img) == [type |-> "bytes", content |-> "truncated", img |-> img]
GarbageBytes        == [type |-> "bytes", content |-> "garbage", img |-> NoImage]
\* a path (str or Path) to an image file, to a file that is no image, to no file
PathTo(img)         == [type |-> "path", content |-> "image", img |-> img]
PathToGarbage       == [type |-> "path", content |-> "garbage", img |-> NoImage]
PathToNothing       == [type |-> "path", content |-> "missing", img |-> NoImage]
\* an in-memory PIL image
ImageHandle(img)    == [type |-> "Image", content |-> "image", img |-> img]
\* anything else, e.g. an integer
OtherInput          == [type |-> "int", content |-> "none", img |-> NoImage]

BadInputs ==
    {GarbageBytes, PathToGarbage, PathToNothing, OtherInput}
    \cup {TruncatedBytes(OnePixel("RGB", <<255, 255, 255>>)),
          TruncatedBytes(OnePixel("RGBA", <<255, 255, 255, 255>>))}

MainInputs == {EncodedBytes(i) : i \in Images} \cup BadInputs

SmallInputs ==
    {EncodedBytes(i) : i \in SmallImages}
    \cup {PathTo(i) : i \in SmallImages}
    \cup {ImageHandle(i) : i \in SmallImages}
    \cup BadInputs

(* ------------------------------------------------------------------ *)
(* Library operations the component calls                               *)
(* ------------------------------------------------------------------ *)
\* Image.convert('RGBA'): an RGB pixel gets alpha 255, a grey pixel becomes
\* r = g = b = l with alpha 255
PixelToRGBA(mode, p) ==
    CASE mode = "RGBA" -> p
      [] mode = "RGB"  -> <<p[1], p[2], p[3], 255>>
      [] mode = "L"    -> <<p[1], p[1], p[1], 255>>

ConvertRGBA(img) ==
    [mode |-> "RGBA", h |-> img.h, w |-> img.w,
     px |-> [p \in Pos(img.h, img.w) |-> PixelToRGBA(img.mode, img.px[p])]]

\* width and height taken in the order of image.size: the array transposed
NpArray_transposed(img) ==
    [h |-> img.w, w |-> img.h,
     px |-> [p \in Pos(img.w, img.h) |-> img.px[<<p[2], p[1]>>]]]

\* np.array(image): an array of shape (h, w, 4) holding a copy of the pixels
NpArray(img) == [h |-> img.h, w |-> img.w, px |-> img.px]

\* Image.fromarray(data, 'RGBA')
FromArray(d) == [mode |-> "RGBA", h |-> d.h, w |-> d.w, px |-> d.px]

\* the 4-connected neighbours of a position (scipy's default structuring
\* element, generate_binary_structure(2, 1), without its centre)
Neighbours(p) ==
    {<<p[1] - 1, p[2]>>, <<p[1] + 1, p[2]>>, <<p[1], p[2] - 1>>, <<p[1], p[2] + 1>>}

\* the value of a mask at a position; outside the array it is border_value = 0
MaskAt(m, p) == p \in Pos(m.h, m.w) /\ m.m[p]

\* the erosion with border_value = 1: outside the array counts as masked
binary_erosion_border_one(m) ==
    [h |-> m.h, w |-> m.w,
     m |-> [p \in Pos(m.h, m.w) |->
              m.m[p] /\ \A n \in Neighbours(p) \cap Pos(m.h, m.w) : m.m[n]]]

\* scipy.ndimage.binary_erosion(mask, iterations=1)
binary_erosion(m) ==
    [h |-> m.h, w |-> m.w,
     m |-> [p \in Pos(m.h, m.w) |->
              m.m[p] /\ \A n \in Neighbours(p) : MaskAt(m, n)]]

\* scipy.ndimage.binary_dilation(mask, iterations=1)
binary_dilation(m) ==
    [h |-> m.h, w |-> m.w,
     m |-> [p \in Pos(m.h, m.w) |->
              m.m[p] \/ \E n \in Neighbours(p) : MaskAt(m, n)]]

(* ------------------------------------------------------------------ *)
(* remove_white_background, lines 57-86                                 *)
(* ------------------------------------------------------------------ *)
\* the subtraction from 255 forgotten
white_threshold_raw(tol) == tol

\* line 59
white_threshold(tol) == 255 - tol

\* the comparison with >= in place of >
IsWhite_ge(pixel, tol) ==
    /\ pixel[1] >= white_threshold(tol)
    /\ pixel[2] >= white_threshold(tol)
    /\ pixel[3] >= white_threshold(tol)

\* lines 60-64: all three colour channels above the threshold
IsWhite(pixel, tol) ==
    /\ pixel[1] > white_threshold(tol)
    /\ pixel[2] > white_threshold(tol)
    /\ pixel[3] > white_threshold(tol)

WhiteMask(d, tol) ==
    [h |-> d.h, w |-> d.w, m |-> [p \in Pos(d.h, d.w) |-> IsWhite(d.px[p], tol)]]

\* dilation before erosion (a closing in place of the opening)
SmoothMask_closing(m, smoothing) ==
    IF smoothing THEN binary_erosion(binary_dilation(m)) ELSE m

\* the dilation left out
SmoothMask_erode_only(m, smoothing) ==
    IF smoothing THEN binary_erosion(m) ELSE m

\* lines 66-71
SmoothMask(m, smoothing) ==
    IF smoothing THEN binary_dilation(binary_erosion(m)) ELSE m

\* lines 59-71
ComputeMask(d, tol, smoothing) == SmoothMask(WhiteMask(d, tol), smoothing)

\* the whole masked pixel zeroed: data[mask] = 0
ApplyMask_pixel(d, m) ==
    [h |-> d.h, w |-> d.w,
     px |-> [p \in Pos(d.h, d.w) |-> IF m.m[p] THEN <<0, 0, 0, 0>> ELSE d.px[p]]]

\* the alpha of the masked pixels halved in place of zeroed
ApplyMask_halve(d, m) ==
    [h |-> d.h, w |-> d.w,
     px |-> [p \in Pos(d.h, d.w) |->
               IF m.m[p]
               THEN <<d.px[p][1], d.px[p][2], d.px[p][3], d.px[p][4] \div 2>>
               ELSE d.px[p]]]

\* line 81: data[mask, 3] = 0
ApplyMask(d, m) ==
    [h |-> d.h, w |-> d.w,
     px |-> [p \in Pos(d.h, d.w) |->
               IF m.m[p] THEN <<d.px[p][1], d.px[p][2], d.px[p][3], 0>>
                         ELSE d.px[p]]]

NoArray == [h |-> 0, w |-> 0, px |-> [p \in {} |-> <<>>]]
NoMask  == [h |-> 0, w |-> 0, m |-> [p \in {} |-> FALSE]]

(* ------------------------------------------------------------------ *)
(* Output paths of save_transparent                                     *)
(* ------------------------------------------------------------------ *)
\* a path is its parent directory and the name of its last component, the
\* name a sequence of characters
ExistingDirs == {"output"}

FileNames ==
    { <<"a", ".", "p", "n", "g">>,
      <<"a", ".", "P", "N", "G">>,
      <<"a", ".", "j", "p", "g">>,
      <<"a", ".", "b", ".", "j", "p", "g">>,
      <<"a">>,
      <<".", "p", "n", "g">> }

OutputPaths == {[parent |-> d, name |-> n] : d \in {"output", "fresh"}, n \in FileNames}
NoPath == [parent |-> "", name |-> <<>>]

\* str.lower() on the characters used here
LowerChar(c) ==
    CASE c = "P" -> "p" [] c = "N" -> "n" [] c = "G" -> "g" [] OTHER -> c

Lower(x) == [i \in 1..Len(x) |-> LowerChar(x[i])]

\* str.rfind('.') counted from 1: the position of the last dot, 0 if none
LastDot(name) ==
    IF \E i \in 1..Len(name) : name[i] = "."
    THEN CHOOSE i \in 1..Len(name) :
            name[i] = "." /\ \A j \in (i + 1)..Len(name) : name[j] # "."
    ELSE 0

\* PurePath.suffix: the name from its last dot on, when that dot is neither
\* the first nor the last character of the name; empty otherwise
Suffix(name) ==
    IF 1 < LastDot(name) /\ LastDot(name) < Len(name)
    THEN SubSeq(name, LastDot(name), Len(name))
    ELSE <<>>

\* PurePath.with_suffix: the suffix replaced, or appended when there is none
WithSuffix(path, suffix) ==
    [path EXCEPT !.name =
        SubSeq(path.name, 1, Len(path.name) - Len(Suffix(path.name))) \o suffix]

DotPng == <<".", "p", "n", "g">>

\* the extension compared without lower()
PngPath_case_sensitive(path) ==
    IF Suffix(path.name) # DotPng THEN WithSuffix(path, DotPng) ELSE path

\* lines 121-123
PngPath(path) ==
    IF Lower(Suffix(path.name)) # DotPng THEN WithSuffix(path, DotPng) ELSE path

(* ------------------------------------------------------------------ *)
(* State                                                                *)
(* ------------------------------------------------------------------ *)
VARIABLES
    tolerance,       \* self.tolerance
    edge_smoothing,  \* self.edge_smoothing
    op,              \* the public operation in progress or finished, "none" before
    pc,              \* position in the operation
    image_input,     \* the argument image_input / cartoon_bytes
    output_path,     \* the argument output_path of save_transparent
    image,           \* local image: the decoded input, RGBA after line 49
    data,            \* local data: the pixel buffer, np.array(image)
    mask,            \* local mask
    result,          \* the image remove_white_background returns
    returned,        \* what the operation returned to its caller
    raised,          \* the exception that reached the caller, "none" if none
    trace,           \* the library calls made so far by the operation
    held,            \* the image the caller got from the previous call and passed back
    files,           \* the files written: set of [path, img]
    dirs,            \* the directories that exist
    cli_pc,          \* position of the CLI command cartoonize (src/main.py)
    api_pc,          \* position of the handler generate_cartoon (src/api_main.py)
    options,         \* the CLI options: transparent, no_crop, output
    author_name,     \* the author name extract_author returned
    image_url,       \* the URL find_author_image returned
    image_bytes,     \* the photo: "none", "downloaded" or "cropped"
    cartoon_bytes,   \* the cartoon bytes handed from step to step
    calls,           \* the pipeline steps called so far, in order
    printed,         \* the diagnostics the CLI printed
    exit_status,     \* the exit status of the CLI process, "running" before
    response,        \* the HTTP response of the handler
    constructed_with, \* the arguments the constructor was called with
    caller_object,   \* the object the caller passed, and the locals sharing its storage
    thread,          \* the calls in progress on one instance, one per thread
    debug,           \* config.debug, the global the calls read
    crop_result,     \* how crop_face ended: "cropped" or "raised", "none" before
    generated_from   \* the image bytes generate_cartoon was called with

config_vars == <<tolerance, edge_smoothing, constructed_with>>
call_vars == <<op, image_input, output_path, held>>
local_vars == <<image, data, mask, result>>
\* the state of the pipelines around the component
crop_vars == <<crop_result, generated_from>>
pipe_vars == <<dirs, cli_pc, api_pc, options, author_name, image_url, image_bytes,
               cartoon_bytes, calls, printed, exit_status, response, crop_vars>>
\* the state of concurrent calls on one instance
thread_vars == <<thread, debug>>
vars == <<tolerance, edge_smoothing, op, pc, image_input, output_path, image,
          data, mask, result, returned, raised, trace, held, files, pipe_vars,
          constructed_with, caller_object, thread_vars>>

(* ------------------------------------------------------------------ *)
(* PNG: Image.save(buffer, format='PNG', optimize=True) and its reading  *)
(* ------------------------------------------------------------------ *)
Channels(mode) == CASE mode = "RGBA" -> 4 [] mode = "RGB" -> 3 [] OTHER -> 1

NoData == [format |-> "none", mode |-> "none", h |-> 0, w |-> 0, samples |-> <<>>]

\* the image written with its alpha dropped: converted to RGB before saving
PngEncode_rgb(img) ==
    [format |-> "PNG", mode |-> "RGB", h |-> img.h, w |-> img.w,
     samples |-> [i \in 1..(img.h * img.w * 3) |->
                    img.px[<<((i - 1) \div (3 * img.w)) + 1,
                             (((i - 1) \div 3) % img.w) + 1>>][((i - 1) % 3) + 1]]]

\* the PNG stream of an image: its colour type, its size and its samples row
\* by row, pixel by pixel, channel by channel (optimize only changes the
\* compression of the stream, not the samples)
PngEncode(img) ==
    [format |-> "PNG", mode |-> img.mode, h |-> img.h, w |-> img.w,
     samples |-> [i \in 1..(img.h * img.w * Channels(img.mode)) |->
                    img.px[<<((i - 1) \div (Channels(img.mode) * img.w)) + 1,
                             (((i - 1) \div Channels(img.mode)) % img.w) + 1>>]
                          [((i - 1) % Channels(img.mode)) + 1]]]

\* the image a PNG stream decodes to
PngDecode(b) ==
    [mode |-> b.mode, h |-> b.h, w |-> b.w,
     px |-> [p \in Pos(b.h, b.w) |->
               [c \in 1..Channels(b.mode) |->
                  b.samples[((p[1] - 1) * b.w + (p[2] - 1)) * Channels(b.mode) + c]]]]

NoReturn == [kind |-> "none", img |-> NoImage, path |-> NoPath, data |-> NoData]
ReturnImage(img) == [kind |-> "Image", img |-> img, path |-> NoPath, data |-> NoData]
\* process_cartoon returns the contents of the buffer the PNG was written to
ReturnBytes(img) ==
    [kind |-> "bytes", img |-> NoImage, path |-> NoPath, data |-> PngEncode(img)]
ReturnPath(path) == [kind |-> "path", img |-> NoImage, path |-> path, data |-> NoData]

NoBytes == [type |-> "bytes", content |-> "none", img |-> NoImage]
NoOptions == [transparent |-> FALSE, no_crop |-> FALSE, output |-> NoPath]
NoResponse == [status |-> 0, media_type |-> "none", body |-> NoBytes]

\* no pipeline is running
PipeIdle ==
    /\ dirs = ExistingDirs
    /\ cli_pc = "off"
    /\ api_pc = "off"
    /\ options = NoOptions
    /\ author_name = "none"
    /\ image_url = "none"
    /\ image_bytes = "none"
    /\ cartoon_bytes = NoBytes
    /\ calls = <<>>
    /\ printed = <<>>
    /\ exit_status = "running"
    /\ response = NoResponse
    /\ crop_result = "none"
    /\ generated_from = "none"

(* ------------------------------------------------------------------ *)
(* BackgroundRemover.__init__, lines 16-25                              *)
(* ------------------------------------------------------------------ *)
DefaultTolerance == 30
DefaultEdgeSmoothing == TRUE

\* the arguments of a constructor call: each is given, <<v>>, or left out, <<>>
ConstructorArgs ==
    [tolerance : {<<>>} \cup {<<t>> : t \in Tolerances},
     edge_smoothing : {<<>>} \cup {<<b>> : b \in BOOLEAN}]
\* the constructor calls that give both arguments (src/main.py lines 80-83)
ExplicitArgs == {a \in ConstructorArgs : a.tolerance # <<>> /\ a.edge_smoothing # <<>>}

\* every call gets the default configuration
Construct_ignore_args(args) ==
    [tolerance |-> DefaultTolerance, edge_smoothing |-> DefaultEdgeSmoothing]

\* the fields __init__ sets for the arguments of the call
Construct(args) ==
    [tolerance |-> IF args.tolerance = <<>> THEN DefaultTolerance
                   ELSE args.tolerance[1],
     edge_smoothing |-> IF args.edge_smoothing = <<>> THEN DefaultEdgeSmoothing
                        ELSE args.edge_smoothing[1]]

Constructed(args) ==
    /\ constructed_with = args
    /\ tolerance = Construct(args).tolerance
    /\ edge_smoothing = Construct(args).edge_smoothing

\* the caller's object as passed: no local shares its storage
Passed(inp) == [value |-> inp, aliases |-> {}]

\* a thread that has not called the instance
IdleThread ==
    [op |-> "none", pc |-> "idle", input |-> OtherInput, image |-> NoImage,
     data |-> NoArray, mask |-> NoMask, result |-> NoImage,
     returned |-> NoReturn, raised |-> "none", logged |-> 0]

\* no operation of the component has been called
ComponentIdle ==
    /\ op = "none"
    /\ pc = "idle"
    /\ image_input = OtherInput
    /\ output_path = NoPath
    /\ image = NoImage
    /\ data = NoArray
    /\ mask = NoMask
    /\ result = NoImage
    /\ returned = NoReturn
    /\ raised = "none"
    /\ trace = <<>>
    /\ held = NoImage
    /\ files = {}
    /\ caller_object = Passed(OtherInput)
    /\ thread = [t \in Threads |-> IdleThread]
    /\ debug = FALSE

\* BackgroundRemover.__init__, lines 16-25
Init ==
    /\ \E args \in ExplicitArgs : Constructed(args)
    /\ ComponentIdle
    /\ PipeIdle

(* ------------------------------------------------------------------ *)
(* Lines 37-45: the input is loaded                                     *)
(* ------------------------------------------------------------------ *)
\* the final else branch left out: image is unbound on line 48
LoadError_no_else(inp) ==
    CASE inp.type = "bytes" /\ inp.content = "garbage" -> "UnidentifiedImageError"
      [] inp.type = "path" /\ inp.content = "garbage"  -> "UnidentifiedImageError"
      [] inp.type = "path" /\ inp.content = "missing"  -> "FileNotFoundError"
      [] inp.type \notin {"bytes", "path", "Image"}    -> "UnboundLocalError"
      [] OTHER -> "none"

\* the exception lines 38-45 raise for an input, "none" if they raise none
LoadError(inp) ==
    CASE inp.type = "bytes" /\ inp.content = "garbage" -> "UnidentifiedImageError"
      [] inp.type = "path" /\ inp.content = "garbage"  -> "UnidentifiedImageError"
      [] inp.type = "path" /\ inp.content = "missing"  -> "FileNotFoundError"
      [] inp.type \notin {"bytes", "path", "Image"}    -> "ValueError"
      [] OTHER -> "none"

\* the library call lines 38-45 make for an input
LoadCall(inp) ==
    CASE inp.type \in {"bytes", "path"} -> <<"Image.open">>
      [] inp.type = "Image"             -> <<"Image.copy">>
      [] OTHER                          -> <<>>

\* entry of an operation and lines 37-45 of remove_white_background
Enter(o, inp, path) ==
    /\ op' = o
    /\ image_input' = inp
    /\ output_path' = path
    /\ caller_object' = Passed(inp)
    /\ trace' = LoadCall(inp)
    /\ data' = NoArray
    /\ mask' = NoMask
    /\ result' = NoImage
    /\ returned' = NoReturn
    /\ IF LoadError(inp) # "none"
       THEN /\ raised' = LoadError(inp)
            /\ image' = NoImage
            /\ pc' = "done"
       ELSE /\ raised' = "none"
            /\ image' = inp.img
            /\ pc' = "decode"
    /\ UNCHANGED <<config_vars, files>>

Call_remove_white_background ==
    /\ UNCHANGED <<pipe_vars, thread_vars>>
    /\ pc = "idle"
    /\ \E inp \in MainInputs \cup SmallInputs :
          Enter("remove_white_background", inp, NoPath)
    /\ held' = NoImage

Call_process_cartoon ==
    /\ UNCHANGED <<pipe_vars, thread_vars>>
    /\ pc = "idle"
    /\ \E inp \in SmallInputs : Enter("process_cartoon", inp, NoPath)
    /\ held' = NoImage

Call_save_transparent ==
    /\ UNCHANGED <<pipe_vars, thread_vars>>
    /\ pc = "idle"
    /\ \E inp \in SmallInputs, path \in OutputPaths :
          Enter("save_transparent", inp, path)
    /\ held' = NoImage

\* the caller passes the image it got from remove_white_background back to
\* the same remover
CallAgain ==
    /\ UNCHANGED <<pipe_vars, thread_vars>>
    /\ pc = "done"
    /\ op = "remove_white_background"
    /\ returned.kind = "Image"
    /\ Enter("remove_white_background", ImageHandle(returned.img), NoPath)
    /\ held' = returned.img

(* ------------------------------------------------------------------ *)
(* Lines 47-55: conversion to RGBA and to an array                      *)
(* ------------------------------------------------------------------ *)
\* truncated files loaded as far as they go (ImageFile.LOAD_TRUNCATED_IMAGES)
PixelsLoadable_lenient(inp) == TRUE

\* Image.open reads the header only; the pixel data of a truncated file
\* cannot be loaded
PixelsLoadable(inp) == inp.content # "truncated"

\* the first call that needs the pixels (convert on line 49, np.array on
\* line 55) raises OSError when they cannot be loaded
Decode ==
    /\ UNCHANGED <<pipe_vars, thread_vars, caller_object>>
    /\ pc = "decode"
    /\ IF ~PixelsLoadable(image_input)
       THEN /\ raised' = "OSError"
            /\ pc' = "done"
            /\ trace' = trace
            /\ UNCHANGED <<image, data>>
       ELSE /\ image' = IF image.mode # "RGBA" THEN ConvertRGBA(image) ELSE image
            /\ data' = NpArray(image')
            /\ trace' = trace
                        \o (IF image.mode # "RGBA" THEN <<"convert">> ELSE <<>>)
                        \o <<"np.array">>
            /\ pc' = "mask"
            /\ UNCHANGED raised
    /\ UNCHANGED <<config_vars, call_vars, mask, result, returned, files>>

(* ------------------------------------------------------------------ *)
(* Lines 57-71: the mask                                                *)
(* ------------------------------------------------------------------ *)
Mask ==
    /\ UNCHANGED <<pipe_vars, thread_vars, caller_object>>
    /\ pc = "mask"
    /\ mask' = ComputeMask(data, tolerance, edge_smoothing)
    /\ pc' = "apply"
    /\ UNCHANGED <<config_vars, call_vars, image, data, result, returned,
                   raised, trace, files>>

(* ------------------------------------------------------------------ *)
(* Lines 80-86: the alpha of the masked pixels, and the return          *)
(* ------------------------------------------------------------------ *)
\* an RGBA image handle is neither copied (line 44) nor converted, and data
\* is a view of its pixels
WrittenObject_input(inp) ==
    IF inp.type = "Image" /\ inp.img.mode = "RGBA" THEN "image_input" ELSE "data"

\* the object whose pixels line 81 writes: data is the array np.array made
\* on line 55, a copy of the pixels of image, which is itself newly opened
\* (lines 39, 41), a copy (line 44) or a conversion (line 49)
WrittenObject(inp) == "data"

Apply ==
    /\ UNCHANGED <<pipe_vars, thread_vars>>
    /\ pc = "apply"
    /\ data' = ApplyMask(data, mask)
    /\ result' = FromArray(data')
    /\ caller_object' =
          IF WrittenObject(image_input) = "image_input"
          THEN [value |-> ImageHandle(result'), aliases |-> {"data", "result"}]
          ELSE caller_object
    /\ trace' = Append(trace, "Image.fromarray")
    /\ IF op = "remove_white_background"
       THEN /\ returned' = ReturnImage(result')
            /\ pc' = "done"
       ELSE /\ returned' = returned
            /\ pc' = IF op = "process_cartoon" THEN "encode" ELSE "save"
    /\ UNCHANGED <<config_vars, call_vars, image, mask, raised, files>>

(* ------------------------------------------------------------------ *)
(* process_cartoon, lines 101-104                                       *)
(* ------------------------------------------------------------------ *)
Encode ==
    /\ UNCHANGED <<pipe_vars, thread_vars, caller_object>>
    /\ pc = "encode"
    /\ returned' = ReturnBytes(result)
    /\ trace' = Append(trace, "Image.save")
    /\ pc' = "done"
    /\ UNCHANGED <<config_vars, call_vars, local_vars, raised, files>>

(* ------------------------------------------------------------------ *)
(* save_transparent, lines 120-131                                      *)
(* ------------------------------------------------------------------ *)
Save ==
    /\ UNCHANGED <<pipe_vars, thread_vars, caller_object>>
    /\ pc = "save"
    /\ trace' = Append(trace, "Image.save")
    /\ pc' = "done"
    /\ IF PngPath(output_path).parent \in dirs
       THEN /\ files' = files \cup {[path |-> PngPath(output_path), img |-> result]}
            /\ returned' = ReturnPath(PngPath(output_path))
            /\ UNCHANGED raised
       ELSE /\ raised' = "FileNotFoundError"
            /\ UNCHANGED <<files, returned>>
    /\ UNCHANGED <<config_vars, call_vars, local_vars>>

Next ==
    \/ Call_remove_white_background
    \/ Call_process_cartoon
    \/ Call_save_transparent
    \/ CallAgain
    \/ Decode
    \/ Mask
    \/ Apply
    \/ Encode
    \/ Save

Spec == Init /\ [][Next]_vars


(* ------------------------------------------------------------------ *)
(* The pipelines: what the collaborators can hand over                  *)
(* ------------------------------------------------------------------ *)
\* extract_author returns a name, which _clean_author_name can leave empty
AuthorNames == {"Jane Doe", ""}
\* find_author_image returns a URL
ImageUrls == {"http://img/jane.jpg", ""}
\* generate_cartoon returns whatever the generated image URL serves
CartoonBytes ==
    {EncodedBytes(i) : i \in SmallImages}
    \cup {GarbageBytes, TruncatedBytes(OnePixel("RGB", <<255, 255, 255>>))}

\* Image.convert("RGB"): the alpha channel is dropped
PixelToRGB(mode, p) ==
    CASE mode = "RGB"  -> p
      [] mode = "RGBA" -> <<p[1], p[2], p[3]>>
      [] mode = "L"    -> <<p[1], p[1], p[1]>>

ConvertRGB(img) ==
    [mode |-> "RGB", h |-> img.h, w |-> img.w,
     px |-> [p \in Pos(img.h, img.w) |-> PixelToRGB(img.mode, img.px[p])]]

(* ------------------------------------------------------------------ *)
(* The CLI command cartoonize, src/main.py lines 46-149                 *)
(* ------------------------------------------------------------------ *)
CliOutputs ==
    {NoPath,
     [parent |-> "output", name |-> <<"a", ".", "p", "n", "g">>],
     [parent |-> "fresh", name |-> <<"a", ".", "j", "p", "g">>]}

CliOptions == [transparent : BOOLEAN, no_crop : BOOLEAN, output : CliOutputs]

\* the process starts: config is built from the environment (src/config.py
\* lines 33-36 give the remover's tolerance and edge smoothing)
InitCli ==
    /\ \E args \in ExplicitArgs : Constructed(args)
    /\ ComponentIdle
    /\ dirs = ExistingDirs
    /\ cli_pc = "start"
    /\ api_pc = "off"
    /\ options \in CliOptions
    /\ author_name = "none"
    /\ image_url = "none"
    /\ image_bytes = "none"
    /\ cartoon_bytes = NoBytes
    /\ calls = <<>>
    /\ printed = <<>>
    /\ exit_status = "running"
    /\ response = NoResponse
    /\ crop_result = "none"
    /\ generated_from = "none"

component_vars == <<op, pc, image_input, output_path, image, data, mask, result,
                    returned, raised, trace, held, caller_object>>

\* crop_face returns the cropped bytes or raises (src/face_cropper.py
\* lines 25-67)
CropOutcomes == {"cropped", "raised"}

\* the cropped bytes handed on whatever crop_face did
AfterCrop_always(bytes, outcome) == "cropped"

\* image_bytes after the crop step (main.py lines 113-120, api_main.py lines
\* 277-283): the cropped bytes, or the bytes as downloaded when crop_face raised
AfterCrop(bytes, outcome) == IF outcome = "cropped" THEN "cropped" ELSE bytes

\* the exception is printed but the process ends with status 0
CliFail_status_zero(step) ==
    /\ cli_pc' = "exited"
    /\ exit_status' = "0"
    /\ printed' = Append(printed, "Error")
    /\ calls' = Append(calls, step)

\* lines 145-149: any exception of the try block is printed and the process
\* exits with status 1
CliFail(step) ==
    /\ cli_pc' = "exited"
    /\ exit_status' = "1"
    /\ printed' = Append(printed, "Error")
    /\ calls' = Append(calls, step)

\* lines 70-83: the configuration is validated and the components are built
Cli_Start ==
    /\ cli_pc = "start"
    /\ \/ /\ cli_pc' = "extract"
          /\ UNCHANGED <<exit_status, printed, calls>>
       \/ CliFail("validate")
    /\ UNCHANGED <<thread_vars, crop_vars, config_vars, component_vars, files, dirs, api_pc, options,
                   author_name, image_url, image_bytes, cartoon_bytes, response>>

\* lines 91-97
Cli_Extract ==
    /\ cli_pc = "extract"
    /\ \/ /\ author_name' \in AuthorNames
          /\ cli_pc' = "find"
          /\ calls' = Append(calls, "extract_author")
          /\ printed' = Append(printed, "Found author")
          /\ UNCHANGED exit_status
       \/ /\ CliFail("extract_author")
          /\ UNCHANGED author_name
    /\ UNCHANGED <<thread_vars, crop_vars, config_vars, component_vars, files, dirs, api_pc, options,
                   image_url, image_bytes, cartoon_bytes, response>>

\* lines 99-103
Cli_Find ==
    /\ cli_pc = "find"
    /\ \/ /\ image_url' = "http://img/jane.jpg"
          /\ cli_pc' = "download"
          /\ calls' = Append(calls, "find_author_image")
          /\ printed' = Append(printed, "Found author image")
          /\ UNCHANGED exit_status
       \/ /\ CliFail("find_author_image")
          /\ UNCHANGED image_url
    /\ UNCHANGED <<thread_vars, crop_vars, config_vars, component_vars, files, dirs, api_pc, options,
                   author_name, image_bytes, cartoon_bytes, response>>

\* lines 105-108
Cli_Download ==
    /\ cli_pc = "download"
    /\ \/ /\ image_bytes' = "downloaded"
          /\ cli_pc' = IF options.no_crop THEN "generate" ELSE "crop"
          /\ calls' = Append(calls, "download_image")
          /\ UNCHANGED <<exit_status, printed>>
       \/ /\ CliFail("download_image")
          /\ UNCHANGED image_bytes
    /\ UNCHANGED <<thread_vars, crop_vars, config_vars, component_vars, files, dirs, api_pc, options,
                   author_name, image_url, cartoon_bytes, response>>

\* lines 110-120: a failure of crop_face is printed and the full image kept
Cli_Crop ==
    /\ cli_pc = "crop"
    /\ \E outcome \in CropOutcomes :
          /\ crop_result' = outcome
          /\ image_bytes' = AfterCrop(image_bytes, outcome)
          /\ printed' = Append(printed, IF outcome = "cropped"
                                        THEN "Face detected and cropped"
                                        ELSE "Could not crop face")
    /\ calls' = Append(calls, "crop_face")
    /\ cli_pc' = "generate"
    /\ UNCHANGED <<generated_from, thread_vars, config_vars, component_vars, files, dirs, api_pc, options,
                   author_name, image_url, cartoon_bytes, exit_status, response>>

\* lines 122-126
Cli_Generate ==
    /\ cli_pc = "generate"
    /\ generated_from' = image_bytes
    /\ UNCHANGED crop_result
    /\ \/ /\ cartoon_bytes' \in CartoonBytes
          /\ cli_pc' = IF options.transparent THEN "remove_bg" ELSE "save"
          /\ calls' = Append(calls, "generate_cartoon")
          /\ printed' = Append(printed, "Cartoon generated successfully")
          /\ UNCHANGED exit_status
       \/ /\ CliFail("generate_cartoon")
          /\ UNCHANGED cartoon_bytes
    /\ UNCHANGED <<thread_vars, config_vars, component_vars, files, dirs, api_pc, options,
                   author_name, image_url, image_bytes, response>>

\* lines 129-131: bg_remover.process_cartoon(cartoon_bytes) is called
Cli_RemoveBackground ==
    /\ cli_pc = "remove_bg"
    /\ Enter("process_cartoon", cartoon_bytes, NoPath)
    /\ held' = NoImage
    /\ cli_pc' = "removing"
    /\ calls' = Append(calls, "process_cartoon")
    /\ UNCHANGED <<thread_vars, crop_vars, dirs, api_pc, options, author_name, image_url, image_bytes,
                   cartoon_bytes, printed, exit_status, response>>

\* lines 131-133 and 145-149: process_cartoon has returned or raised
Cli_BackgroundRemoved ==
    /\ cli_pc = "removing"
    /\ pc = "done"
    /\ IF raised = "none"
       THEN /\ cartoon_bytes' = EncodedBytes(PngDecode(returned.data))
            /\ printed' = Append(printed, "Background removed successfully")
            /\ cli_pc' = "save"
            /\ UNCHANGED exit_status
       ELSE /\ cli_pc' = "exited"
            /\ exit_status' = "1"
            /\ printed' = Append(printed, "Error")
            /\ UNCHANGED cartoon_bytes
    /\ UNCHANGED <<thread_vars, crop_vars, config_vars, component_vars, files, dirs, api_pc, options,
                   author_name, image_url, image_bytes, calls, response>>

\* lines 136-140: the default output path
DefaultOutput(author, transparent) ==
    [parent |-> "output",
     name |-> <<author, "_wsj">>
              \o (IF transparent THEN <<"_transparent">> ELSE <<>>)
              \o DotPng]

CliOutput == IF options.output = NoPath
             THEN DefaultOutput(author_name, options.transparent)
             ELSE options.output

\* save_cartoon lines 143-144: .png is appended to a path not ending in it
CartoonPath(path) ==
    IF Len(path.name) >= 4
       /\ Lower(SubSeq(path.name, Len(path.name) - 3, Len(path.name))) = DotPng
    THEN path
    ELSE [path EXCEPT !.name = path.name \o DotPng]

\* the image save_cartoon writes: opened from the bytes and converted to RGB
\* when its mode is not RGB (src/wsj_cartoonizer.py lines 136-140)
SavedImage(b) == IF b.img.mode # "RGB" THEN ConvertRGB(b.img) ELSE b.img

\* main.py lines 135-143 with WSJCartoonizer.save_cartoon
\* (src/wsj_cartoonizer.py lines 131-154): the parent directory is created,
\* then the bytes are opened, converted and written
Cli_Save ==
    /\ cli_pc = "save"
    /\ calls' = Append(calls, "save_cartoon")
    /\ dirs' = dirs \cup {CliOutput.parent}
    /\ cli_pc' = "exited"
    /\ IF cartoon_bytes.content = "image"
       THEN /\ files' = files \cup {[path |-> CartoonPath(CliOutput),
                                     img |-> SavedImage(cartoon_bytes)]}
            /\ printed' = Append(printed, "Saved cartoon")
            /\ exit_status' = "0"
       ELSE /\ printed' = Append(printed, "Error")
            /\ exit_status' = "1"
            /\ UNCHANGED files
    /\ UNCHANGED <<thread_vars, crop_vars, config_vars, component_vars, api_pc, options, author_name,
                   image_url, image_bytes, cartoon_bytes, response>>

\* the steps of process_cartoon run inside the CLI process
NextCli ==
    \/ Cli_Start
    \/ Cli_Extract
    \/ Cli_Find
    \/ Cli_Download
    \/ Cli_Crop
    \/ Cli_Generate
    \/ Cli_RemoveBackground
    \/ Decode
    \/ Mask
    \/ Apply
    \/ Encode
    \/ Cli_BackgroundRemoved
    \/ Cli_Save

SpecCli == InitCli /\ [][NextCli]_vars


(* ------------------------------------------------------------------ *)
(* The handler generate_cartoon, src/api_main.py lines 220-316          *)
(* ------------------------------------------------------------------ *)
\* lifespan (lines 44-65) has built the author extractor, the image finder,
\* the face cropper and the cartoonizer; a request has arrived
InitApi ==
    /\ \E args \in ExplicitArgs : Constructed(args)
    /\ ComponentIdle
    /\ dirs = ExistingDirs
    /\ cli_pc = "off"
    /\ api_pc = "extract"
    /\ options = NoOptions
    /\ author_name = "none"
    /\ image_url = "none"
    /\ image_bytes = "none"
    /\ cartoon_bytes = NoBytes
    /\ calls = <<>>
    /\ printed = <<>>
    /\ exit_status = "running"
    /\ response = NoResponse
    /\ crop_result = "none"
    /\ generated_from = "none"

\* the error rendered as a successful image response
ErrorResponse_ok(status) ==
    [status |-> 200, media_type |-> "image/png", body |-> NoBytes]

\* an HTTPException, rendered by http_exception_handler (lines 319-329)
ErrorResponse(status) ==
    [status |-> status, media_type |-> "application/json", body |-> NoBytes]

ApiFail(step, status) ==
    /\ api_pc' = "responded"
    /\ response' = ErrorResponse(status)
    /\ calls' = Append(calls, step)

\* the HTTPException(404) of lines 234-237 is raised inside the try of line
\* 231 and caught by its except Exception (lines 238-242)
EmptyAuthorStatus == 400

\* lines 230-242
Api_Extract ==
    /\ api_pc = "extract"
    /\ \/ \E name \in AuthorNames :
            /\ author_name' = name
            /\ IF name = ""
               THEN ApiFail("extract_author", EmptyAuthorStatus)
               ELSE /\ api_pc' = "find"
                    /\ calls' = Append(calls, "extract_author")
                    /\ UNCHANGED response
       \/ /\ ApiFail("extract_author", 400)
          /\ UNCHANGED author_name
    /\ UNCHANGED <<thread_vars, crop_vars, config_vars, component_vars, files, dirs, cli_pc, options,
                   image_url, image_bytes, cartoon_bytes, printed, exit_status>>

\* lines 244-265
Api_Find ==
    /\ api_pc = "find"
    /\ \/ \E url \in ImageUrls :
            /\ image_url' = url
            /\ IF url = ""
               THEN ApiFail("find_author_image", 404)
               ELSE /\ api_pc' = "download"
                    /\ calls' = Append(calls, "find_author_image")
                    /\ UNCHANGED response
       \/ /\ ApiFail("find_author_image", 404)
          /\ UNCHANGED image_url
    /\ UNCHANGED <<thread_vars, crop_vars, config_vars, component_vars, files, dirs, cli_pc, options,
                   author_name, image_bytes, cartoon_bytes, printed, exit_status>>

\* lines 267-274
Api_Download ==
    /\ api_pc = "download"
    /\ \/ /\ image_bytes' = "downloaded"
          /\ api_pc' = "crop"
          /\ calls' = Append(calls, "download_image")
          /\ UNCHANGED response
       \/ /\ ApiFail("download_image", 400)
          /\ UNCHANGED image_bytes
    /\ UNCHANGED <<thread_vars, crop_vars, config_vars, component_vars, files, dirs, cli_pc, options,
                   author_name, image_url, cartoon_bytes, printed, exit_status>>

\* lines 276-283
Api_Crop ==
    /\ api_pc = "crop"
    /\ \E outcome \in CropOutcomes :
          /\ crop_result' = outcome
          /\ image_bytes' = AfterCrop(image_bytes, outcome)
    /\ calls' = Append(calls, "crop_face")
    /\ api_pc' = "generate"
    /\ UNCHANGED <<generated_from, thread_vars, config_vars, component_vars, files, dirs, cli_pc, options,
                   author_name, image_url, cartoon_bytes, printed, exit_status,
                   response>>

\* lines 285-292
Api_Generate ==
    /\ api_pc = "generate"
    /\ generated_from' = image_bytes
    /\ UNCHANGED crop_result
    /\ \/ /\ cartoon_bytes' \in CartoonBytes
          /\ api_pc' = "respond"
          /\ calls' = Append(calls, "generate_cartoon")
          /\ UNCHANGED response
       \/ /\ ApiFail("generate_cartoon", 500)
          /\ UNCHANGED cartoon_bytes
    /\ UNCHANGED <<thread_vars, config_vars, component_vars, files, dirs, cli_pc, options,
                   author_name, image_url, image_bytes, printed, exit_status>>

\* lines 294-302: the response is built from cartoon_bytes
Api_Respond ==
    /\ api_pc = "respond"
    /\ response' = [status |-> 200, media_type |-> "image/png", body |-> cartoon_bytes]
    /\ api_pc' = "responded"
    /\ UNCHANGED <<thread_vars, crop_vars, config_vars, component_vars, files, dirs, cli_pc, options,
                   author_name, image_url, image_bytes, cartoon_bytes, calls,
                   printed, exit_status>>

NextApi ==
    \/ Api_Extract
    \/ Api_Find
    \/ Api_Download
    \/ Api_Crop
    \/ Api_Generate
    \/ Api_Respond

SpecApi == InitApi /\ [][NextApi]_vars



(* ------------------------------------------------------------------ *)
(* The two programs that embed the pipeline: a run is either the CLI     *)
(* command or a request to the web service                              *)
(* ------------------------------------------------------------------ *)
InitPipelines == InitCli \/ InitApi

NextPipelines == NextCli \/ NextApi

SpecPipelines == InitPipelines /\ [][NextPipelines]_vars

(* ------------------------------------------------------------------ *)
(* Concurrent calls on one BackgroundRemover, src/background_remover.py *)
(* lines 27-104: every local of a call lives in the frame of its thread *)
(* ------------------------------------------------------------------ *)
White1 == OnePixel("RGB", <<255, 255, 255>>)
Ink1   == OnePixel("RGBA", <<0, 0, 0, 255>>)

ThreadInputs == {EncodedBytes(White1), ImageHandle(Ink1), TruncatedBytes(White1)}

ThreadOps == {"remove_white_background", "process_cartoon"}

\* the state the threads leave alone: the sequential caller and the pipelines
sequential_vars == <<config_vars, component_vars, files, pipe_vars>>

InitThreads ==
    /\ \E args \in ExplicitArgs : Constructed(args)
    /\ ComponentIdle
    /\ PipeIdle

\* every call writes and reads the one array of the first thread
BufferOf_shared(t) == 1

\* the frame that holds the array data of the call of thread t (line 55:
\* np.array allocates a new array in every call)
BufferOf(t) == t

\* the frame of a call after lines 37-45
Entered(o, inp) ==
    [IdleThread EXCEPT
        !.op = o,
        !.input = inp,
        !.raised = LoadError(inp),
        !.image = IF LoadError(inp) # "none" THEN NoImage ELSE inp.img,
        !.pc = IF LoadError(inp) # "none" THEN "done" ELSE "decode"]

T_Call(t) ==
    /\ UNCHANGED sequential_vars
    /\ thread[t].pc = "idle"
    /\ \E o \in ThreadOps, inp \in ThreadInputs :
          thread' = [thread EXCEPT ![t] = Entered(o, inp)]
    /\ UNCHANGED debug

\* lines 47-55; line 51 reads config.debug and prints
T_Decode(t) ==
    /\ UNCHANGED sequential_vars
    /\ thread[t].pc = "decode"
    /\ IF ~PixelsLoadable(thread[t].input)
       THEN thread' = [thread EXCEPT ![t].raised = "OSError", ![t].pc = "done"]
       ELSE LET img == IF thread[t].image.mode # "RGBA"
                       THEN ConvertRGBA(thread[t].image) ELSE thread[t].image
            IN  thread' = [thread EXCEPT
                              ![t].image = img,
                              ![t].logged = IF debug THEN @ + 1 ELSE @,
                              ![t].pc = "mask",
                              ![BufferOf(t)].data = NpArray(img)]
    /\ UNCHANGED debug

\* lines 57-78; line 74 reads config.debug and prints
T_Mask(t) ==
    /\ UNCHANGED sequential_vars
    /\ thread[t].pc = "mask"
    /\ thread' = [thread EXCEPT
                     ![t].mask = ComputeMask(thread[BufferOf(t)].data,
                                             tolerance, edge_smoothing),
                     ![t].logged = IF debug THEN @ + 1 ELSE @,
                     ![t].pc = "apply"]
    /\ UNCHANGED debug

\* lines 80-86
T_Apply(t) ==
    /\ UNCHANGED sequential_vars
    /\ thread[t].pc = "apply"
    /\ LET d == ApplyMask(thread[BufferOf(t)].data, thread[t].mask)
           r == FromArray(d)
       IN  thread' = [thread EXCEPT
                         ![t].result = r,
                         ![t].returned = IF thread[t].op = "remove_white_background"
                                         THEN ReturnImage(r) ELSE @,
                         ![t].pc = IF thread[t].op = "remove_white_background"
                                   THEN "done" ELSE "encode",
                         ![BufferOf(t)].data = d]
    /\ UNCHANGED debug

\* process_cartoon, lines 101-104
T_Encode(t) ==
    /\ UNCHANGED sequential_vars
    /\ thread[t].pc = "encode"
    /\ thread' = [thread EXCEPT
                     ![t].returned = ReturnBytes(thread[t].result),
                     ![t].pc = "done"]
    /\ UNCHANGED debug

\* src/main.py line 68: config.debug = debug, the one write of the process,
\* here with --debug and while calls run
SetDebug ==
    /\ UNCHANGED sequential_vars
    /\ ~debug
    /\ debug' = TRUE
    /\ UNCHANGED thread

NextThreads ==
    \/ \E t \in Threads : T_Call(t)
    \/ \E t \in Threads : T_Decode(t)
    \/ \E t \in Threads : T_Mask(t)
    \/ \E t \in Threads : T_Apply(t)
    \/ \E t \in Threads : T_Encode(t)
    \/ SetDebug

SpecThreads == InitThreads /\ [][NextThreads]_vars


(* ------------------------------------------------------------------ *)
(* One instance, constructed with or without arguments, called again    *)
(* and again                                                            *)
(* ------------------------------------------------------------------ *)
SeqInputs == {EncodedBytes(White1), ImageHandle(Ink1), GarbageBytes, OtherInput}
SeqPaths ==
    {[parent |-> "output", name |-> <<"a", ".", "j", "p", "g">>],
     [parent |-> "fresh", name |-> <<"a", ".", "p", "n", "g">>]}
SeqOps == {"remove_white_background", "process_cartoon", "save_transparent"}

InitSeq ==
    /\ \E args \in ConstructorArgs : Constructed(args)
    /\ ComponentIdle
    /\ PipeIdle

\* a public operation is called on the instance, the first or after another
\* has returned or raised
Seq_Call ==
    /\ UNCHANGED <<pipe_vars, thread_vars>>
    /\ pc \in {"idle", "done"}
    /\ \E o \in SeqOps, inp \in SeqInputs, path \in SeqPaths :
          Enter(o, inp, IF o = "save_transparent" THEN path ELSE NoPath)
    /\ held' = NoImage

NextSeq ==
    \/ Seq_Call
    \/ Decode
    \/ Mask
    \/ Apply
    \/ Encode
    \/ Save

SpecSeq == InitSeq /\ [][NextSeq]_vars

(* ------------------------------------------------------------------ *)
(* Properties of remove_white_background                                *)
(* ------------------------------------------------------------------ *)
\* remove_white_background has produced its result image
Removed == result # NoImage

Opaque(img) == \A p \in Pos(img.h, img.w) : img.px[p][4] = 255

\* red, green and blue are each strictly greater than 255 - tolerance
NearWhite(pixel) ==
    /\ pixel[1] > 255 - tolerance
    /\ pixel[2] > 255 - tolerance
    /\ pixel[3] > 255 - tolerance

\* C1: with edge smoothing disabled and an opaque input, a pixel of the
\* result has alpha 0 if and only if its red, green and blue are each
\* strictly greater than 255 - tolerance, and alpha 255 otherwise.
C1_ThresholdAlpha ==
    (Removed /\ ~edge_smoothing /\ Opaque(image)) =>
        \A p \in Pos(image.h, image.w) :
            result.px[p][4] = IF NearWhite(image.px[p]) THEN 0 ELSE 255

\* both sides of the boundary in one image: a pixel with a channel equal to
\* 255 - tolerance kept opaque next to a pixel with that channel one higher
\* made transparent
C1_Witness ==
    /\ Removed /\ ~edge_smoothing /\ Opaque(image)
    /\ \E p, q \in Pos(image.h, image.w) :
          /\ image.px[p][1] = 255 - tolerance
          /\ image.px[q][1] = 255 - tolerance + 1
          /\ image.px[p][2] = image.px[q][2] /\ image.px[p][2] > 255 - tolerance
          /\ image.px[p][3] = image.px[q][3] /\ image.px[p][3] > 255 - tolerance
          /\ result.px[p][4] = 255
          /\ result.px[q][4] = 0

\* C2: every pixel of the result has the red, green and blue of the decoded
\* input pixel, and its alpha is 0 or the alpha of the decoded input pixel.
C2_OnlyAlphaChanges ==
    Removed =>
        \A p \in Pos(image.h, image.w) :
            /\ result.px[p][1] = image.px[p][1]
            /\ result.px[p][2] = image.px[p][2]
            /\ result.px[p][3] = image.px[p][3]
            /\ result.px[p][4] \in {0, image.px[p][4]}

\* a smoothed result with a pixel made transparent and a pixel keeping a
\* partial input alpha
C2_Witness ==
    /\ Removed /\ edge_smoothing
    /\ \E p, q \in Pos(image.h, image.w) :
          /\ image.px[p][4] = 128 /\ result.px[p][4] = 0
          /\ image.px[q][4] \in {77, 128} /\ result.px[q][4] = image.px[q][4]

\* C3: remove_white_background applied to its own result, with the same
\* configuration, returns an image with the same pixels.
C3_Idempotent ==
    (Removed /\ held # NoImage) => result = held

\* the second application on a result with transparent and opaque pixels
C3_Witness ==
    /\ Removed /\ held # NoImage /\ image_input = ImageHandle(held)
    /\ \E p, q \in Pos(held.h, held.w) : held.px[p][4] = 0 /\ held.px[q][4] = 255

\* the set of pixels the threshold test of lines 59-64 selects at a tolerance
WhiteSet(img, tol) ==
    {p \in Pos(img.h, img.w) : WhiteMask(NpArray(img), tol).m[p]}

MaskSet(m) == {p \in Pos(m.h, m.w) : m.m[p]}

\* C4: with edge smoothing disabled, the pixels made transparent at the
\* remover's tolerance include those selected at every smaller tolerance and
\* are included in those selected at every larger tolerance.
C4_MonotoneInTolerance ==
    (pc = "done" /\ Removed /\ ~edge_smoothing) =>
        \A t \in AllTolerances :
            /\ t <= tolerance => WhiteSet(image, t) \subseteq MaskSet(mask)
            /\ t >= tolerance => MaskSet(mask) \subseteq WhiteSet(image, t)

\* a result whose transparent set is strictly between those of a smaller
\* and of a larger tolerance
C4_Witness ==
    /\ pc = "done" /\ Removed /\ ~edge_smoothing
    /\ \E t1, t2 \in AllTolerances :
          /\ t1 < tolerance /\ tolerance < t2
          /\ WhiteSet(image, t1) # MaskSet(mask)
          /\ WhiteSet(image, t2) # MaskSet(mask)
          /\ MaskSet(mask) # {}

\* C5: when exactly one pixel of an opaque input is near-white, edge
\* smoothing leaves the alpha of that pixel at 255, and without edge
\* smoothing the pixel gets alpha 0.
C5_StrayPixel ==
    (Removed /\ Opaque(image)
       /\ Cardinality({p \in Pos(image.h, image.w) : NearWhite(image.px[p])}) = 1) =>
        \A p \in Pos(image.h, image.w) :
            NearWhite(image.px[p]) =>
                result.px[p][4] = IF edge_smoothing THEN 255 ELSE 0

\* the stray pixel has its four neighbours inside the image, all foreground
C5_Witness ==
    /\ Removed /\ Opaque(image) /\ edge_smoothing
    /\ \E p \in Pos(image.h, image.w) :
          /\ NearWhite(image.px[p])
          /\ Neighbours(p) \subseteq Pos(image.h, image.w)
          /\ \A q \in Pos(image.h, image.w) \ {p} : ~NearWhite(image.px[q])
          /\ result.px[p][4] = 255

\* the rectangles of at least 3 by 3 pixels inside an image, each given by
\* its top-left and bottom-right positions
Blocks(img) ==
    {b \in Pos(img.h, img.w) \X Pos(img.h, img.w) :
        b[2][1] >= b[1][1] + 2 /\ b[2][2] >= b[1][2] + 2}

BlockPixels(b) == (b[1][1]..b[2][1]) \X (b[1][2]..b[2][2])

BlockCorners(b) ==
    {<<b[1][1], b[1][2]>>, <<b[1][1], b[2][2]>>,
     <<b[2][1], b[1][2]>>, <<b[2][1], b[2][2]>>}

NearWhiteBlock(img, b) == \A p \in BlockPixels(b) : NearWhite(img.px[p])

C7_SameDimensions ==
    Removed =>
        /\ result.h = image_input.img.h /\ result.w = image_input.img.w
        /\ DOMAIN result.px = Pos(image_input.img.h, image_input.img.w)
        /\ mask.h = image_input.img.h /\ mask.w = image_input.img.w
        /\ DOMAIN mask.m = Pos(image_input.img.h, image_input.img.w)

\* a result for an image one pixel high and more than one pixel wide
C7_Witness ==
    /\ Removed
    /\ image_input.img.h = 1 /\ image_input.img.w > 1
    /\ result.h = 1 /\ result.w = image_input.img.w

\* C8: for an opaque input whose pixels are all black, every pixel of the
\* result has alpha 255, whatever the tolerance and the smoothing setting.
C8_BlackStaysOpaque ==
    (Removed /\ \A p \in Pos(image.h, image.w) : image.px[p] = <<0, 0, 0, 255>>) =>
        \A p \in Pos(image.h, image.w) : result.px[p][4] = 255

\* an all-black image of several pixels at the largest tolerance
C8_Witness ==
    /\ Removed /\ tolerance = 255
    /\ image.h * image.w > 1
    /\ \A p \in Pos(image.h, image.w) :
          image.px[p] = <<0, 0, 0, 255>> /\ result.px[p][4] = 255

(* ------------------------------------------------------------------ *)
(* Properties of the failures                                           *)
(* ------------------------------------------------------------------ *)
\* C9: with an input that is no bytes, no path and no image, each of the
\* three operations ends with ValueError before any image is opened, any
\* pixel buffer is created, anything is returned or any file is written.
C9_InvalidInput ==
    (op # "none" /\ image_input.type \notin {"bytes", "path", "Image"}) =>
        /\ pc = "done"
        /\ raised = "ValueError"
        /\ trace = <<>>
        /\ image = NoImage /\ data = NoArray /\ mask = NoMask /\ result = NoImage
        /\ returned = NoReturn
        /\ files = {}

\* save_transparent called with an integer
C9_Witness ==
    /\ op = "save_transparent"
    /\ image_input = OtherInput
    /\ raised = "ValueError"

DecodeErrors == {"UnidentifiedImageError", "OSError"}

\* C10: with bytes that are no parseable image, remove_white_background and
\* process_cartoon return nothing, produce no result image, and end with a
\* decode error reaching the caller.
C10_DecodeError ==
    (op \in {"remove_white_background", "process_cartoon"}
       /\ image_input.type = "bytes"
       /\ image_input.content \in {"garbage", "truncated"}) =>
        /\ returned = NoReturn
        /\ result = NoImage
        /\ pc \in {"decode", "done"}
        /\ pc = "done" => raised \in DecodeErrors

\* process_cartoon ended by the error of truncated bytes
C10_Witness ==
    /\ op = "process_cartoon"
    /\ image_input.type = "bytes" /\ image_input.content = "truncated"
    /\ pc = "done" /\ raised = "OSError"

(* ------------------------------------------------------------------ *)
(* Properties of process_cartoon and save_transparent                   *)
(* ------------------------------------------------------------------ *)
\* the image remove_white_background returns for a decodable image under a
\* configuration (lines 47-86 in one piece)
RemoveWhiteBackground(img, tol, smoothing) ==
    LET rgba == IF img.mode # "RGBA" THEN ConvertRGBA(img) ELSE img
        d == NpArray(rgba)
    IN  FromArray(ApplyMask(d, ComputeMask(d, tol, smoothing)))

\* C11: the bytes process_cartoon returns decode to an image with the mode,
\* size and pixels (red, green, blue and alpha) of the image
\* remove_white_background returns for the same input and configuration.
C11_LosslessEncoding ==
    (op = "process_cartoon" /\ pc = "done" /\ raised = "none") =>
        /\ returned.kind = "bytes"
        /\ returned.data.format = "PNG"
        /\ PngDecode(returned.data)
             = RemoveWhiteBackground(image_input.img, tolerance, edge_smoothing)

\* process_cartoon returned bytes whose image has a transparent pixel and a
\* pixel of partial alpha
C11_Witness ==
    /\ op = "process_cartoon" /\ pc = "done" /\ raised = "none"
    /\ returned.kind = "bytes"
    /\ \E p, q \in Pos(result.h, result.w) :
          /\ PngDecode(returned.data).px[p][4] = 0 /\ image.px[p][4] # 0
          /\ PngDecode(returned.data).px[q][4] = 77

\* the last four characters of a name are .png, in any case
EndsInPng(name) ==
    Len(name) >= 4 /\ Lower(SubSeq(name, Len(name) - 3, Len(name))) = DotPng

SavedOk == op = "save_transparent" /\ pc = "done" /\ raised = "none"

\* C12 as stated: the path save_transparent returns is the path written and
\* ends in .png; a requested path ending in .png in any case is returned
\* unchanged, any other is returned changed and no file is written at it.
C12_PngPathReturned ==
    SavedOk =>
        /\ returned.kind = "path"
        /\ {f.path : f \in files} = {returned.path}
        /\ EndsInPng(returned.path.name)
        /\ EndsInPng(output_path.name) => returned.path = output_path
        /\ ~EndsInPng(output_path.name) => returned.path # output_path

\* C12 amended: the same, with "ends in .png" for the requested path read as
\* pathlib reads it: the name has a suffix (a last dot that is not its first
\* character) and that suffix is .png in any case.
C12_PngSuffixReturned ==
    SavedOk =>
        /\ returned.kind = "path"
        /\ {f.path : f \in files} = {returned.path}
        /\ EndsInPng(returned.path.name)
        /\ returned.path.parent = output_path.parent
        /\ Lower(Suffix(output_path.name)) = DotPng => returned.path = output_path
        /\ Lower(Suffix(output_path.name)) # DotPng => returned.path # output_path

\* a file requested as a.PNG written and returned under that name
C12_Witness ==
    /\ SavedOk
    /\ output_path.name = <<"a", ".", "P", "N", "G">>
    /\ returned.path = output_path
    /\ \E f \in files : f.path = output_path

\* C13: save_transparent called with a decodable input and an output path
\* in a directory that does not exist yet creates the directory, writes the
\* file and returns its path.
C13_ParentsCreated ==
    (op = "save_transparent" /\ pc = "done" /\ Removed) =>
        /\ raised = "none"
        /\ returned.kind = "path"
        /\ \E f \in files : f.path = returned.path

(* ------------------------------------------------------------------ *)
(* Properties of the pipelines around the component                     *)
(* ------------------------------------------------------------------ *)
Called(step) == \E i \in 1..Len(calls) : calls[i] = step

\* C14: every request of the web service for which a cartoon was generated
\* has called process_cartoon on it before it responds, and responds with
\* status 200 carrying either the transparent image or the cartoon unchanged.
C14_ApiAttemptsRemoval ==
    (api_pc = "responded" /\ Called("generate_cartoon")) =>
        /\ Called("process_cartoon")
        /\ op = "process_cartoon"
        /\ response.status = 200
        /\ IF raised = "none"
           THEN response.body = EncodedBytes(PngDecode(returned.data))
           ELSE response.body = cartoon_bytes

\* C15: in the CLI run with the transparent flag, when process_cartoon
\* raises, the diagnostic is printed and the run goes on to the save step
\* with the cartoon of the generation step, which is written when it can be
\* decoded.
C15_RemovalFailureStillSaves ==
    (cli_pc = "exited" /\ options.transparent
       /\ op = "process_cartoon" /\ raised # "none") =>
        /\ Called("save_cartoon")
        /\ cartoon_bytes.content = "image" =>
              \E f \in files : f.img = SavedImage(cartoon_bytes)

\* C16: after a CLI run with the transparent flag in which process_cartoon
\* succeeded and the file was saved, every pixel process_cartoon made
\* transparent has alpha 0 in the saved file.
C16_SavedFileTransparent ==
    (cli_pc = "exited" /\ exit_status = "0" /\ options.transparent) =>
        \A f \in files :
            \A p \in Pos(result.h, result.w) :
                result.px[p][4] = 0 => (f.img.mode = "RGBA" /\ f.img.px[p][4] = 0)

(* ------------------------------------------------------------------ *)
(* Properties of the instance: concurrency, configuration, frame        *)
(* ------------------------------------------------------------------ *)
\* what a call returns when it runs alone on an input
AloneRaised(inp) ==
    IF LoadError(inp) # "none" THEN LoadError(inp)
    ELSE IF ~PixelsLoadable(inp) THEN "OSError" ELSE "none"

AloneReturned(o, inp) ==
    IF AloneRaised(inp) # "none" THEN NoReturn
    ELSE IF o = "remove_white_background"
         THEN ReturnImage(RemoveWhiteBackground(inp.img, tolerance, edge_smoothing))
         ELSE ReturnBytes(RemoveWhiteBackground(inp.img, tolerance, edge_smoothing))

\* C17: in every interleaving of the calls of the threads on one instance,
\* a call that has finished has raised and returned exactly what the same
\* call raises and returns when it runs alone on its input.
C17_CallsIsolated ==
    \A t \in Threads :
        thread[t].pc = "done" =>
            /\ thread[t].raised = AloneRaised(thread[t].input)
            /\ thread[t].returned = AloneReturned(thread[t].op, thread[t].input)

\* two calls on different inputs have both finished, one made its pixel
\* transparent and the other kept its pixel, and config.debug changed
\* between the two debug reads of a call
C17_Witness ==
    \E t, u \in Threads :
        /\ thread[t].pc = "done" /\ thread[u].pc = "done"
        /\ thread[t].input = EncodedBytes(White1)
        /\ thread[u].input = ImageHandle(Ink1)
        /\ thread[t].result.px[<<1, 1>>][4] = 0
        /\ thread[u].result.px[<<1, 1>>][4] = 255
        /\ thread[t].logged = 1

\* C18: the configuration is fixed at construction: an argument left out
\* gives tolerance 30 and edge smoothing true, and after any sequence of
\* calls of the three operations, failed ones included, tolerance and
\* edge_smoothing have the values the constructor was given.
C18_ConfigurationFixed ==
    /\ tolerance = IF constructed_with.tolerance = <<>> THEN 30
                   ELSE constructed_with.tolerance[1]
    /\ edge_smoothing = IF constructed_with.edge_smoothing = <<>> THEN TRUE
                        ELSE constructed_with.edge_smoothing[1]

\* an instance constructed with tolerance 255 and no edge_smoothing argument
\* has saved a file in one call and failed in the call after it
C18_Witness ==
    /\ constructed_with.tolerance = <<255>>
    /\ constructed_with.edge_smoothing = <<>>
    /\ files # {}
    /\ pc = "done"
    /\ op = "process_cartoon"
    /\ raised = "UnidentifiedImageError"

\* C19: remove_white_background does not change what the caller passed: when
\* it has returned, a byte stream the caller passed has the contents it had
\* and an image handle the caller passed has the pixels, alpha included, it
\* had before the call, and the returned image is a new object that shares
\* no storage with the caller's.
C19_InputNotMutated ==
    (Removed /\ op = "remove_white_background" /\ pc = "done"
       /\ image_input.type \in {"bytes", "Image"}) =>
        /\ caller_object.value = image_input
        /\ caller_object.aliases = {}
        /\ returned = ReturnImage(result)

\* the caller passed an RGBA image handle, and the call returned an image in
\* which a pixel that was not transparent in the caller's image is transparent
C19_Witness ==
    /\ Removed
    /\ op = "remove_white_background"
    /\ pc = "done"
    /\ image_input.type = "Image"
    /\ image_input.img.mode = "RGBA"
    /\ \E p \in Pos(result.h, result.w) :
          result.px[p][4] = 0 /\ image_input.img.px[p][4] # 0

(* ------------------------------------------------------------------ *)
(* The meaning of tolerance                                             *)
(* ------------------------------------------------------------------ *)
\* the distance of the red, green and blue of a pixel below pure white
Distance(pixel, c) == 255 - pixel[c]

\* C20 as stated: with smoothing disabled, a pixel whose red, green and blue
\* are each at most tolerance below 255 (255 - channel <= tolerance) gets
\* alpha 0, for every tolerance, so that with tolerance 0 a pure-white pixel
\* is background.
C20_DistanceAtMostTolerance ==
    (Removed /\ ~edge_smoothing) =>
        \A p \in Pos(result.h, result.w) :
            (\A c \in 1..3 : Distance(image.px[p], c) <= tolerance)
                => result.px[p][4] = 0

\* C20: with smoothing disabled, a pixel gets alpha 0 exactly when its red,
\* green and blue are each less than tolerance below 255 (255 - channel <
\* tolerance), and keeps its alpha otherwise; with tolerance 0 every pixel,
\* pure white included, keeps its alpha.
C20_DistanceBelowTolerance ==
    (Removed /\ ~edge_smoothing) =>
        \A p \in Pos(result.h, result.w) :
            /\ (\A c \in 1..3 : Distance(image.px[p], c) < tolerance)
                  => result.px[p][4] = 0
            /\ (\E c \in 1..3 : Distance(image.px[p], c) >= tolerance)
                  => result.px[p][4] = image.px[p][4]
            /\ tolerance = 0 => result.px[p][4] = image.px[p][4]

\* with tolerance 0 and smoothing disabled a pure-white opaque pixel has
\* stayed opaque
C20_Witness ==
    /\ Removed
    /\ ~edge_smoothing
    /\ tolerance = 0
    /\ \E p \in Pos(result.h, result.w) :
          /\ \A c \in 1..3 : image.px[p][c] = 255
          /\ result.px[p][4] = 255

(* ------------------------------------------------------------------ *)
(* The smoothing pass                                                   *)
(* ------------------------------------------------------------------ *)
\* C21: with edge smoothing enabled, the smoothed mask is a subset of the
\* raw threshold mask: a masked pixel has red, green and blue all above the
\* threshold, and a pixel that fails that test keeps its alpha in the result.
C21_SmoothedWithinRaw ==
    (edge_smoothing /\ mask # NoMask) =>
        /\ \A p \in Pos(mask.h, mask.w) : mask.m[p] => NearWhite(image.px[p])
        /\ Removed =>
              \A p \in Pos(result.h, result.w) :
                  ~NearWhite(image.px[p]) => result.px[p][4] = image.px[p][4]

\* smoothing changed the mask of an image that has a foreground pixel next
\* to masked ones: some near-white pixel is not masked, some is, and an
\* opaque foreground pixel with a masked neighbour stayed opaque
C21_Witness ==
    /\ Removed /\ edge_smoothing
    /\ \E p, q, r \in Pos(image.h, image.w) :
          /\ NearWhite(image.px[p]) /\ ~mask.m[p]
          /\ mask.m[q]
          /\ ~NearWhite(image.px[r]) /\ image.px[r][4] = 255
          /\ \E n \in Neighbours(r) : MaskAt(mask, n)
          /\ result.px[r][4] = 255

\* the pixels of the buffer that pass the threshold test
RawAt(p) == p \in Pos(image.h, image.w) /\ NearWhite(image.px[p])
\* a pixel survives erosion when it and its four neighbours pass the test,
\* a neighbour outside the buffer counting as failing it
Survives(p) == RawAt(p) /\ \A n \in Neighbours(p) : RawAt(n)
OnBorder(p) == p[1] \in {1, image.h} \/ p[2] \in {1, image.w}

\* C22: during erosion positions outside the buffer count as unmasked: no
\* pixel of the outermost rows and columns survives erosion, and after the
\* dilation a pixel is masked exactly when it or one of its 4-connected
\* neighbours inside the buffer survived erosion.
C22_OpeningWithBorderZero ==
    (edge_smoothing /\ mask # NoMask) =>
        \A p \in Pos(mask.h, mask.w) :
            /\ OnBorder(p) => ~Survives(p)
            /\ mask.m[p] <=>
                  \/ Survives(p)
                  \/ \E n \in Neighbours(p) \cap Pos(mask.h, mask.w) : Survives(n)

\* a border pixel whose neighbours inside the buffer all pass the test, as
\* it does itself, has not survived erosion and is masked only through the
\* dilation of a surviving neighbour; a corner with no surviving neighbour
\* is not masked
C22_Witness ==
    /\ edge_smoothing /\ mask # NoMask
    /\ \E p, c \in Pos(mask.h, mask.w) :
          /\ OnBorder(p) /\ RawAt(p)
          /\ \A n \in Neighbours(p) \cap Pos(mask.h, mask.w) : RawAt(n)
          /\ mask.m[p]
          /\ OnBorder(c) /\ RawAt(c) /\ ~mask.m[c]

(* ------------------------------------------------------------------ *)
(* The order and the failures of the pipeline steps                     *)
(* ------------------------------------------------------------------ *)
IsPrefix(s, t) == Len(s) <= Len(t) /\ SubSeq(t, 1, Len(s)) = s

\* C23: a request whose author extraction completed with an empty author
\* name is answered with status 404.
C23_EmptyAuthorIs404 ==
    (api_pc = "responded" /\ author_name = "") => response.status = 404

PipelineEnded == cli_pc = "exited" \/ api_pc = "responded"

\* C24: in the CLI and in the web service a failure of crop_face does not
\* end the pipeline: generate_cartoon is still called, with the bytes as
\* downloaded; when crop_face succeeded it is called with the cropped bytes.
C24_CropFailureTolerated ==
    /\ (PipelineEnded /\ crop_result # "none") => Called("generate_cartoon")
    /\ Called("generate_cartoon") =>
          /\ crop_result = "raised" => generated_from = "downloaded"
          /\ crop_result = "cropped" => generated_from = "cropped"
          /\ crop_result = "none" => generated_from = "downloaded"

\* crop_face raised in a request that was then answered with the cartoon
\* generated from the downloaded bytes
C24_Witness ==
    /\ api_pc = "responded"
    /\ crop_result = "raised"
    /\ generated_from = "downloaded"
    /\ response.status = 200

ApiOrder ==
    <<"extract_author", "find_author_image", "download_image", "crop_face",
      "generate_cartoon">>

\* C25: the steps of a request are called in order; the response is 200
\* image/png only when author extraction, image search, download and
\* generation have all succeeded; a failure of one of the four ends the
\* request with status 400, 404 or 500 and no later step is called.
C25_ApiLinear ==
    /\ api_pc # "off" => IsPrefix(calls, ApiOrder)
    /\ api_pc = "responded" =>
          IF response.status = 200
          THEN /\ response.media_type = "image/png"
               /\ calls = ApiOrder
               /\ author_name \notin {"none", ""}
               /\ image_url \notin {"none", ""}
               /\ image_bytes # "none"
               /\ cartoon_bytes # NoBytes
               /\ response.body = cartoon_bytes
          ELSE /\ response.status \in {400, 404, 500}
               /\ calls # <<>>
               /\ calls[Len(calls)] # "crop_face"
               /\ cartoon_bytes = NoBytes
               /\ Len(calls) < 3 => image_bytes = "none"
               /\ Len(calls) < 2 => image_url = "none"
               /\ Len(calls) < 5 => generated_from = "none"

\* the image search failed after the author was found: the request ended
\* with 404 and neither download nor generation was called
C25_Witness ==
    /\ api_pc = "responded"
    /\ response.status = 404
    /\ calls = <<"extract_author", "find_author_image">>
    /\ author_name = "Jane Doe"

\* the steps of a CLI run, in order, for its options
CliOrder ==
    <<"extract_author", "find_author_image", "download_image">>
    \o (IF options.no_crop THEN <<>> ELSE <<"crop_face">>)
    \o <<"generate_cartoon">>
    \o (IF options.transparent THEN <<"process_cartoon">> ELSE <<>>)
    \o <<"save_cartoon">>

\* C26: the CLI calls its steps once each and in order; a file is written
\* only after author extraction, image search, download and generation
\* (and, with --transparent, background removal) have succeeded; a run in
\* which a step other than face cropping failed has written no file and
\* ended with status 1.
C26_CliLinear ==
    /\ cli_pc # "off" => (IsPrefix(calls, CliOrder) \/ calls = <<"validate">>)
    /\ files # {} =>
          /\ cli_pc = "exited" /\ exit_status = "0"
          /\ calls = CliOrder
          /\ author_name # "none" /\ image_url # "none"
          /\ image_bytes # "none" /\ cartoon_bytes # NoBytes
          /\ options.transparent =>
                (op = "process_cartoon" /\ pc = "done" /\ raised = "none")
    /\ cli_pc = "exited" =>
          \/ exit_status = "0" /\ files # {} /\ calls = CliOrder
          \/ /\ exit_status = "1" /\ files = {}
             /\ printed # <<>> /\ printed[Len(printed)] = "Error"
             /\ calls # <<>> /\ calls[Len(calls)] # "crop_face"

\* a run with --transparent in which process_cartoon raised: nothing was
\* written, save_cartoon was not called, and the status is 1
C26_Witness ==
    /\ cli_pc = "exited"
    /\ options.transparent
    /\ op = "process_cartoon" /\ raised # "none"
    /\ crop_result = "raised"
    /\ files = {}
    /\ exit_status = "1"
    /\ ~Called("save_cartoon")

====
